---- MODULE Spec2Model ----
(***************************************************************************)
(* WinDiagUSB: the probe runner, the six collectors and the aggregator of  *)
(* diagnostics.py, the Tkinter front end of gui.py (worker thread, queue,  *)
(* polling loop, export) and the command-line front end of cli.py.         *)
(*                                                                         *)
(* Text is modelled as a sequence of lexemes: " " and "\n" are the         *)
(* whitespace lexemes, every other lexeme stands for a run of              *)
(* non-whitespace characters (a word, a number, a whole JSON document).    *)
(***************************************************************************)
EXTENDS Integers, Sequences, FiniteSets, TLC

VARIABLES
    \* ---- diagnostics.py: one Diagnostics object and one run_all call ----
    pc,          \* position of the run_all call
    results,     \* Diagnostics.results
    calls,       \* history: the collectors invoked so far, in order
    cmds,        \* history: the external commands handed to run()
    returned,    \* the value run_all returned
    osName,      \* os.name
    now,         \* logical clock read by datetime.utcnow()
    lastInput,   \* history: what the machine answered to the latest collector call
    \* ---- diagnostics.py: run() on its own ----
    proc,        \* what the child process of the probe does
    runResult,   \* what run() gave back
    \* ---- gui.py: App ----
    worker,      \* the threads started so far, each "running" | "finishing" | "dead";
                 \* self.worker is the last of them
    q,           \* self.q
    result,      \* self.result: <<>> for None, else <<record>>
    tabs,        \* what the tabs show
    pollArmed,   \* whether an after(200, poll_queue) callback is pending
    started,     \* history: number of threads started
    handled,     \* history: the runs whose message poll_queue took, in order
    dialog,      \* history: the message boxes shown
    \* ---- cli.py: one cli() invocation ----
    args,        \* the parsed flags
    cliPc,       \* position of the cli() call
    cliEnv,      \* platform / Tk availability / diagnostics inputs of the invocation
    outputs,     \* what the invocation produced
    roundTrip,   \* what reading one of its JSON outputs back gave
    \* ---- export: the two zip writers on one record ----
    expRecord,   \* the record being exported
    cliArchive,  \* the archive cli() wrote
    guiArchive   \* the archive App.export_report wrote

diagVars == <<pc, results, calls, cmds, returned, osName, now, lastInput>>
runVars == <<proc, runResult>>
guiVars == <<worker, q, result, tabs, pollArmed, started, handled, dialog>>
cliVars == <<args, cliPc, cliEnv, outputs, roundTrip>>
expVars == <<expRecord, cliArchive, guiArchive>>
vars == <<diagVars, runVars, guiVars, cliVars, expVars>>

\* ------------------------------------------------------------------ bounds
MaxLen == 3          \* longest stdout / stderr text fed to run() on its own
MaxDevices == 2      \* most drives a smartctl scan lists
MaxRuns == 3         \* most 'Run diagnostics' clicks that are accepted
MaxDialogs == 2      \* most message boxes shown

\* ------------------------------------------------------------------ text
None == "None"

IsWs(c) == c \in {" ", "\n"}

RECURSIVE LStrip(_)
LStrip(s) == IF s # <<>> /\ IsWs(Head(s)) THEN LStrip(Tail(s)) ELSE s

RECURSIVE RStrip(_)
RStrip(s) ==
    IF s # <<>> /\ IsWs(s[Len(s)]) THEN RStrip(SubSeq(s, 1, Len(s) - 1)) ELSE s

\* str.strip()
Strip(s) == RStrip(LStrip(s))

\* str.splitlines(): the lines between "\n" lexemes, no empty last line
RECURSIVE SplitFrom(_, _, _)
SplitFrom(s, i, cur) ==
    IF i > Len(s) THEN (IF cur = <<>> THEN <<>> ELSE <<cur>>)
    ELSE IF s[i] = "\n" THEN <<cur>> \o SplitFrom(s, i + 1, <<>>)
    ELSE SplitFrom(s, i + 1, Append(cur, s[i]))

SplitLines(s) == SplitFrom(s, 1, <<>>)

\* `lex in line`
Contains(s, lex) == \E i \in 1..Len(s) : s[i] = lex

\* line.split(sep)[-1]: what follows the last separator (the whole line without one)
LastField(s, sep) ==
    IF Contains(s, sep)
    THEN LET i == CHOOSE k \in 1..Len(s) : s[k] = sep /\ \A j \in (k+1)..Len(s) : s[j] # sep
         IN SubSeq(s, i + 1, Len(s))
    ELSE s

\* Python truthiness of a text, and `a or b`
Truthy(s) == s # <<>>
Or(a, b) == IF Truthy(a) THEN a ELSE b

\* dict.get(key, default)
Get(d, k, default) == IF k \in DOMAIN d THEN d[k] ELSE default

\* ------------------------------------------------------------ probe runner
\* What the child process does: it completes with an exit code and output, it
\* exceeds the timeout, it cannot be launched, or it completes with output that
\* text=True cannot decode.
ProcKinds == {"completed", "timeout", "nolaunch", "undecodable"}

Completed(code, out, err) == [kind |-> "completed", code |-> code, out |-> out, err |-> err]
Failed(kind) == [kind |-> kind, code |-> 0, out |-> <<>>, err |-> <<>>]
Undecodable(code) == [kind |-> "undecodable", code |-> code, out |-> <<>>, err |-> <<>>]

\* str(exc)
ExcMsg(kind) ==
    CASE kind = "timeout" -> <<"timed out">>
      [] kind = "nolaunch" -> <<"file not found">>
      [] OTHER -> <<"cannot decode">>

run_nostrip(p) ==
    IF p.kind = "completed" THEN <<p.code, p.out, p.err>> ELSE <<1, <<>>, ExcMsg(p.kind)>>

run(p) ==
    IF p.kind = "completed" THEN <<p.code, Strip(p.out), Strip(p.err)>>
    ELSE <<1, <<>>, ExcMsg(p.kind)>>

\* ------------------------------------------------------------------ values
\* dict.update(): the keys of b override those of a
Update(a, b) == [k \in DOMAIN a \cup DOMAIN b |-> IF k \in DOMAIN b THEN b[k] ELSE a[k]]

\* The state a collector works on: self.results, and the commands it ran.
Self(res, cs) == [results |-> res, cmds |-> cs]

\* self.results[section] = value
SetSection(st, section, value) ==
    [st EXCEPT !.results = [st.results EXCEPT ![section] = value]]

\* the probe: run(cmd) as the collector sees it; the command is recorded
Ran(st, cmd) == [st EXCEPT !.cmds = Append(st.cmds, cmd)]

APP_NAME == "WinDiagUSB"

\* Diagnostics.__init__
NewResults(admin, t) ==
    [ meta    |-> [app |-> APP_NAME, timestamp |-> t, admin |-> admin],
      system  |-> <<>>,
      storage |-> <<>>,
      drivers |-> <<>>,
      temps   |-> [sources |-> <<>>, readings |-> <<>>],
      battery |-> <<>>,
      events  |-> [bugchecks |-> [t |-> "list", v |-> <<>>]],
      network |-> <<>> ]

Sections == {"meta", "system", "storage", "drivers", "temps", "battery", "events", "network"}

\* ------------------------------------------------------------ collect_system
\* What psutil answers: `fails` when one of cpu_count / virtual_memory / boot_time /
\* disk_partitions raises; `parts` the partitions, each with whether disk_usage works.
PlatformInfo ==
    [ platform |-> "Windows-10", release |-> "10", version |-> "10.0.19045",
      machine |-> "AMD64", processor |-> "Intel64" ]

RECURSIVE Volumes(_)
Volumes(parts) ==
    IF parts = <<>> THEN <<>>
    ELSE LET part == Head(parts)
         IN (IF part.usageOk
             THEN << [device |-> part.device, mount |-> part.device, fstype |-> "NTFS",
                      total_gb |-> 100, percent |-> 50] >>
             ELSE <<>>) \o Volumes(Tail(parts))

collect_system_raises(psutilPresent, sq) == psutilPresent /\ sq.fails

collect_system(st, psutilPresent, sq) ==
    LET info == IF psutilPresent
                THEN Update(PlatformInfo,
                            [ cpu_physical_cores |-> 4, cpu_logical_cores |-> 8,
                              memory_total_gb |-> 16, boot_time |-> "boot",
                              volumes |-> Volumes(sq.parts) ])
                ELSE PlatformInfo
    IN SetSection(st, "system", info)

\* ------------------------------------------------------------- collect_smart
HealthKey == "SMART overall-health self-assessment test result"

\* re.match(r"^(?P<dev>\S+)", line) over the lines of the scan output
RECURSIVE ScanDevices(_)
ScanDevices(lines) ==
    IF lines = <<>> THEN <<>>
    ELSE LET line == Head(lines)
         IN (IF line # <<>> /\ ~IsWs(line[1]) THEN <<line[1]>> ELSE <<>>)
            \o ScanDevices(Tail(lines))

\* the loop over the lines of `smartctl -a` (lines 147-153)
RECURSIVE ParseSmart(_, _)
ParseSmart(lines, entry) ==
    IF lines = <<>> THEN entry
    ELSE LET line == Head(lines)
             value == Strip(LastField(line, ":"))
             e1 == IF Contains(line, HealthKey)
                   THEN Update(entry, [health |-> value]) ELSE entry
             e2 == IF Contains(line, "Percentage Used") /\ Contains(line, "%")
                   THEN Update(e1, [nvme |-> Update(Get(e1, "nvme", <<>>),
                                                    [percentage_used |-> value])])
                   ELSE e1
             e3 == IF Contains(line, "Data Units Written")
                   THEN Update(e2, [nvme |-> Update(Get(e2, "nvme", <<>>),
                                                    [data_units_written |-> value])])
                   ELSE e2
         IN ParseSmart(Tail(lines), e3)

\* one pass of the loop over the devices (lines 140-154)
SmartEntry(dev, p) ==
    LET r == run(p)
        base == [device |-> dev, returncode |-> r[1]]
    IN IF r[1] # 0
       THEN Update(base, [error |-> Or(r[3], r[2])])
       ELSE ParseSmart(SplitLines(r[2]), Update(base, [raw |-> r[2]]))

RECURSIVE SmartLoop(_, _, _)
SmartLoop(st, devices, devProcs) ==
    IF devices = <<>> THEN st
    ELSE SmartLoop(
            SetSection(Ran(st, "smartctl -a"), "storage",
                       Append(st.results.storage, SmartEntry(Head(devices), Head(devProcs)))),
            Tail(devices), Tail(devProcs))

MissingSmartctl ==
    [error |-> <<"smartctl.exe not found in tools. Place smartctl.exe there to enable SMART checks.">>]

collect_smart(st, exists, scan, devProcs) ==
    IF ~exists
    THEN SetSection(st, "storage", Append(st.results.storage, MissingSmartctl))
    ELSE LET r == run(scan)
             st1 == Ran(st, "smartctl --scan-open")
             devices == ScanDevices(SplitLines(r[2]))
         IN IF r[1] # 0
            THEN SetSection(st1, "storage",
                     Append(st1.results.storage,
                            [error |-> <<"smartctl scan failed: ">> \o Or(r[3], r[2])]))
            ELSE IF devices = <<>>
            THEN SetSection(st1, "storage",
                     Append(st1.results.storage,
                            [note |-> <<"No drives discovered by smartctl.">>]))
            ELSE SmartLoop(st1, devices, devProcs)

\* ----------------------------------------------------- collect_driver_issues
ThisYear == 2026     \* datetime.now().year

\* int(str(driver.DriverDate)[:4]); a date not listed here has no such prefix
DriverYears == [d \in {"20190315000000.000000-000", "20250101000000.000000-000"} |->
                   IF d = "20190315000000.000000-000" THEN 2019 ELSE 2025]

DriverEntry(d) ==
    [ device |-> d.name, manufacturer |-> "vendor", driver_version |-> "1.0",
      driver_date |-> d.date, problem_code |-> d.problem,
      outdated |-> (d.date \in DOMAIN DriverYears /\ DriverYears[d.date] < ThisYear - 2) ]

\* the loop over Win32_PnPSignedDriver(); reading driver number failAt raises
RECURSIVE DriverLoop(_, _, _, _)
DriverLoop(st, drivers, i, failAt) ==
    IF i > Len(drivers) \/ i = failAt THEN st
    ELSE IF drivers[i].problem = 0 THEN DriverLoop(st, drivers, i + 1, failAt)
    ELSE DriverLoop(
            SetSection(st, "drivers", Append(st.results.drivers, DriverEntry(drivers[i]))),
            drivers, i + 1, failAt)

\* collect_driver_issues reporting a missing wmi module the way collect_smart
\* reports a missing smartctl, storage section included
collect_driver_issues_storage(st, wmiPresent, wq) ==
    IF ~wmiPresent
    THEN SetSection(st, "storage", Append(st.results.storage, [error |-> <<"wmi not installed">>]))
    ELSE IF wq.failAt = 0 THEN st
    ELSE DriverLoop(st, wq.drivers, 1, wq.failAt)

\* wq.failAt = 0: wmi.WMI() or the query itself raises
collect_driver_issues(st, wmiPresent, wq) ==
    IF ~wmiPresent \/ wq.failAt = 0 THEN st
    ELSE DriverLoop(st, wq.drivers, 1, wq.failAt)

\* --------------------------------------------------------------------- JSON
\* A parsed JSON value carries its Python type.
JNum(n) == [t |-> "num", v |-> n]
JStr(x) == [t |-> "str", v |-> x]
JList(x) == [t |-> "list", v |-> x]
JDict(x) == [t |-> "dict", v |-> x]
JNull == [t |-> "null", v |-> None]
JError == [t |-> "error", v |-> None]
\* the other Python values a record holds: str as the sequence of its lexemes,
\* bool, float as <<whole, fraction>>
JText(s) == [t |-> "text", v |-> s]
JBool(b) == [t |-> "bool", v |-> b]
JFloat(whole, frac) == [t |-> "float", v |-> <<whole, frac>>]

LhmNumeric == "{Sensors:[{Type:Temperature,Name:CPU,Value:45,Hardware:cpu0},{Type:Load,Name:CPU,Value:7}]}"
LhmString == "{Sensors:[{Type:Temperature,Name:GPU,Value:'61 C',Hardware:gpu0}]}"
LhmNoValue == "{Sensors:[{Type:Temperature,Name:SSD}]}"
LhmBadSensor == "{Sensors:[{Type:Temperature,Name:CPU,Value:45,Hardware:cpu0},7]}"
LhmEmpty == "{}"
LhmList == "[1]"
EvtOne == "{TimeCreated:t1,ProviderName:BugCheck,Id:1001,LevelDisplayName:Error,Message:m1}"
EvtMany == "[{TimeCreated:t1,Id:1001,Message:m1},{TimeCreated:t2,Id:1001,Message:null}]"
EvtNone == "[]"
EvtNumber == "7"

Sensor(type, name, value, hw) ==
    JDict([Type |-> JStr(type), Name |-> JStr(name), Value |-> value, Hardware |-> JStr(hw)])

Event(time, message) ==
    JDict([TimeCreated |-> JStr(time), Id |-> JNum(1001), Message |-> message])

\* the documents the probes can print, and what json.loads makes of each
JsonDocs ==
    (LhmNumeric :> JDict([Sensors |-> JList(<< Sensor("Temperature", "CPU", JNum(45), "cpu0"),
                                               JDict([Type |-> JStr("Load"), Name |-> JStr("CPU"),
                                                      Value |-> JNum(7)]) >>)]))
    @@ (LhmString :> JDict([Sensors |-> JList(<< Sensor("Temperature", "GPU", JStr("61 C"), "gpu0") >>)]))
    @@ (LhmNoValue :> JDict([Sensors |-> JList(<< JDict([Type |-> JStr("Temperature"),
                                                        Name |-> JStr("SSD")]) >>)]))
    @@ (LhmBadSensor :> JDict([Sensors |-> JList(<< Sensor("Temperature", "CPU", JNum(45), "cpu0"),
                                                   JNum(7) >>)]))
    @@ (LhmEmpty :> JDict(<<>>))
    @@ (LhmList :> JList(<<JNum(1)>>))
    @@ (EvtOne :> JDict([TimeCreated |-> JStr("t1"), ProviderName |-> JStr("BugCheck"),
                         Id |-> JNum(1001), LevelDisplayName |-> JStr("Error"),
                         Message |-> JStr("m1")]))
    @@ (EvtMany :> JList(<< Event("t1", JStr("m1")), Event("t2", JNull) >>))
    @@ (EvtNone :> JList(<<>>))
    @@ (EvtNumber :> JNum(7))

\* json.loads(text): a text that is not one JSON document raises (JError)
json_loads(text) ==
    IF Len(text) = 1 /\ text[1] \in DOMAIN JsonDocs THEN JsonDocs[text[1]] ELSE JError

\* Python truthiness of a parsed value
JTruthy(x) ==
    CASE x.t = "num" -> x.v # 0
      [] x.t = "str" -> x.v # ""
      [] x.t = "list" -> x.v # <<>>
      [] x.t = "dict" -> DOMAIN x.v # {}
      [] OTHER -> FALSE

\* ------------------------------------------------------------- collect_temps
\* the loop over data.get("Sensors", []): a sensor that is no dict raises
RECURSIVE SensorLoop(_, _)
SensorLoop(st, sensors) ==
    IF sensors = <<>> THEN st
    ELSE LET sensor == Head(sensors)
         IN IF sensor.t # "dict" THEN st
            ELSE LET type == Get(sensor.v, "Type", JNull)
                 IN IF type.t = "str" /\ type.v = "Temperature"
                    THEN SensorLoop(
                            SetSection(st, "temps",
                                [st.results.temps EXCEPT !.readings =
                                    Append(@, [ name |-> Get(sensor.v, "Name", JNull),
                                                value_c |-> Get(sensor.v, "Value", JNull),
                                                hw |-> Get(sensor.v, "Hardware", JNull) ])]),
                            Tail(sensors))
                    ELSE SensorLoop(st, Tail(sensors))

AddSource(st, source) ==
    SetSection(st, "temps", [st.results.temps EXCEPT !.sources = Append(@, source)])

MissingLhm == <<"None (add LibreHardwareMonitorCLI.exe to tools/)">>

\* collect_temps without the else branch of line 204
collect_temps_silent(st, exists, p) ==
    IF ~exists THEN st
    ELSE LET r == run(p)
             st1 == Ran(st, "LibreHardwareMonitorCLI --json")
             data == json_loads(r[2])
         IN IF ~(r[1] = 0 /\ Truthy(r[2])) \/ data.t = "error" THEN st1
            ELSE LET st2 == AddSource(st1, <<"LibreHardwareMonitorCLI">>)
                     sensors == IF data.t = "dict"
                                THEN Get(data.v, "Sensors", JList(<<>>)) ELSE JError
                 IN IF sensors.t = "list" THEN SensorLoop(st2, sensors.v) ELSE st2

collect_temps(st, exists, p) ==
    IF ~exists
    THEN AddSource(st, MissingLhm)
    ELSE LET r == run(p)
             st1 == Ran(st, "LibreHardwareMonitorCLI --json")
             data == json_loads(r[2])
         IN IF ~(r[1] = 0 /\ Truthy(r[2])) \/ data.t = "error" THEN st1
            ELSE LET st2 == AddSource(st1, <<"LibreHardwareMonitorCLI">>)
                     sensors == IF data.t = "dict"
                                THEN Get(data.v, "Sensors", JList(<<>>)) ELSE JError
                 IN IF sensors.t = "list" THEN SensorLoop(st2, sensors.v) ELSE st2

\* --------------------------------------------------------- collect_bugchecks
collect_bugchecks(st, os, p) ==
    IF os # "nt" THEN st
    ELSE LET r == run(p)
             st1 == Ran(st, "powershell Get-WinEvent")
             data == json_loads(r[2])
             listed == IF data.t = "dict" THEN JList(<<data>>) ELSE data
         IN IF ~(r[1] = 0 /\ Truthy(r[2])) \/ data.t = "error" THEN st1
            ELSE SetSection(st1, "events",
                    [st1.results.events EXCEPT !.bugchecks =
                        IF JTruthy(listed) THEN listed ELSE JList(<<>>)])

\* ----------------------------------------------------------- collect_network
Digits == {"0", "1", "2", "3", "23"}              \* lexemes matching \d+
Numeric == Digits \cup {"11.2", "12.5", "13.9"}   \* lexemes matching [\d\.]+
AddressLex == {"Address:", "Addresses:"}         \* lexemes with "Address" in them
DigitLed == Numeric \cup {"1.1.1.1"}             \* lexemes that begin with a digit

MatchAt(s, i, pat) ==
    /\ i + Len(pat) - 1 <= Len(s)
    /\ \A k \in 1..Len(pat) :
          CASE pat[k] = "\\d+" -> s[i + k - 1] \in Digits
            [] pat[k] = "[\\d\\.]+" -> s[i + k - 1] \in Numeric
            [] OTHER -> s[i + k - 1] = pat[k]

\* re.search(pat, s).group(1), the group being lexeme number `group` of the
\* pattern; "N/A" without a match
SearchGroup(s, pat, group) ==
    IF \E i \in 1..Len(s) : MatchAt(s, i, pat)
    THEN LET i == CHOOSE k \in 1..Len(s) :
                      MatchAt(s, k, pat) /\ \A j \in 1..(k-1) : ~MatchAt(s, j, pat)
         IN s[i + group - 1]
    ELSE "N/A"

AveragePattern == <<"Average", " ", "=", " ", "\\d+", "ms">>
RttPattern == <<"=", " ", "[\\d\\.]+", "/", "[\\d\\.]+", "/">>

\* lines matching r"^\s*\d+"
RECURSIVE Hops(_)
Hops(lines) ==
    IF lines = <<>> THEN 0
    ELSE LET line == LStrip(Head(lines))
         IN (IF line # <<>> /\ line[1] \in DigitLed THEN 1 ELSE 0) + Hops(Tail(lines))

\* the average is taken from the ping output whatever the exit code
collect_network_anyrc(st, os, ping, dns, tracert) ==
    LET rp == run(ping)
        rd == run(dns)
        rt == run(tracert)
        checks ==
            [ ping_ok |-> rp[1] = 0,
              ping_ms |-> IF os = "nt" THEN SearchGroup(rp[2], AveragePattern, 5)
                          ELSE SearchGroup(rp[2], RttPattern, 5),
              dns_ok |-> rd[1] = 0 /\ \E a \in AddressLex : Contains(rd[2], a),
              tracert_hops |-> IF os = "nt" /\ Truthy(rt[2])
                               THEN Hops(SplitLines(rt[2])) ELSE 0 ]
    IN SetSection(IF os = "nt" THEN Ran(Ran(Ran(st, "ping"), "nslookup"), "tracert")
                  ELSE Ran(Ran(st, "ping"), "nslookup"), "network", checks)

collect_network(st, os, ping, dns, tracert) ==
    LET rp == run(ping)
        rd == run(dns)
        rt == run(tracert)
        st1 == Ran(Ran(st, "ping"), "nslookup")
        st2 == IF os = "nt" THEN Ran(st1, "tracert") ELSE st1
        checks ==
            [ ping_ok |-> rp[1] = 0,
              ping_ms |-> IF rp[1] = 0
                          THEN (IF os = "nt" THEN SearchGroup(rp[2], AveragePattern, 5)
                                ELSE SearchGroup(rp[2], RttPattern, 5))
                          ELSE "N/A",
              dns_ok |-> rd[1] = 0 /\ \E a \in AddressLex : Contains(rd[2], a),
              tracert_hops |-> IF os = "nt" /\ Truthy(rt[2])
                               THEN Hops(SplitLines(rt[2])) ELSE 0 ]
    IN SetSection(st2, "network", checks)

\* ------------------------------------------------------------------ run_all
Order == <<"collect_system", "collect_smart", "collect_driver_issues", "collect_temps",
           "collect_bugchecks", "collect_network">>

\* self.results["meta"]["completed"] = ...
Stamp(res, t) == [res EXCEPT !.meta = Update(@, [completed |-> t])]

\* Diagnostics().run_all() in one step, for the front ends: env holds everything
\* the collectors read from the machine, t is the time of construction.
run_all(env, t) ==
    LET s0 == Self(NewResults(env.admin, t), <<>>)
        s1 == collect_system(s0, env.psutil, env.sq)
        s2 == collect_smart(s1, env.smartctl, env.scan, env.devProcs)
        s3 == collect_driver_issues(s2, env.wmi, env.wq)
        s4 == collect_temps(s3, env.lhm, env.lhmProc)
        s5 == collect_bugchecks(s4, env.os, env.evtProc)
        s6 == collect_network(s5, env.os, env.ping, env.dns, env.tracert)
    IN IF collect_system_raises(env.psutil, env.sq)
       THEN [raised |-> TRUE, results |-> <<>>]
       ELSE [raised |-> FALSE, results |-> Stamp(s6.results, t + 7)]

\* --------------------------------------------------- what the machine answers
DevNames == <<"/dev/sda", "/dev/sdb", "/dev/sdc", "/dev/sdd">>

\* a scan output listing n drives, one per line
RECURSIVE ScanOut(_)
ScanOut(n) ==
    IF n = 0 THEN <<>>
    ELSE ScanOut(n - 1) \o <<DevNames[n], " ", "-d", " ", "ata", "\n">>

\* drives, then an indented remark: the scan output as smartctl prints it
ScanProcs ==
    { Completed(0, ScanOut(n) \o <<" ", "#", " ", "end", "\n">>, <<>>) : n \in 1..MaxDevices }
    \cup { Completed(0, <<"\n">>, <<>>),
           Completed(2, <<>>, <<"permission denied">>),
           Completed(1, <<>>, <<>>),
           Failed("timeout") }

SmartPassed ==
    Completed(0, <<HealthKey, ":", " ", "PASSED", "\n",
                   "Percentage Used", ":", " ", "3", "%", "\n",
                   "Data Units Written", ":", " ", "1024">>, <<>>)
SmartFailing == Completed(0, <<" ", HealthKey, ":", " ", "FAILED!", "\n">>, <<>>)
SmartNoOutput == Completed(0, <<"\n">>, <<>>)
SmartSilentError == Completed(2, <<>>, <<>>)

DevProcs == { SmartPassed, SmartSilentError, Failed("timeout") }

\* one outcome of `smartctl -a` per listed drive
DevProcSeqs(scan) ==
    LET n == Len(ScanDevices(SplitLines(run(scan)[2])))
    IN IF run(scan)[1] # 0 THEN {<<>>} ELSE [1..n -> DevProcs]

SysQueries ==
    { [fails |-> TRUE, parts |-> <<>>],
      [fails |-> FALSE, parts |-> << [device |-> "C:", usageOk |-> TRUE],
                                     [device |-> "D:", usageOk |-> FALSE] >>] }

Driver(name, problem, date) == [name |-> name, problem |-> problem, date |-> date]

WmiDrivers ==
    << Driver("usb hub", 0, "20250101000000.000000-000"),
       Driver("old nic", 28, "20190315000000.000000-000"),
       Driver("gpu", 43, None) >>

\* the query raises at once (0), while reading the third driver (3), or not at all
WmiQueries == { [failAt |-> k, drivers |-> WmiDrivers] : k \in {0, 3, Len(WmiDrivers) + 1} }

LhmProcs ==
    { Completed(0, <<LhmNumeric, "\n">>, <<>>),
      Completed(0, <<LhmString>>, <<>>),
      Completed(0, <<LhmList>>, <<>>),
      Completed(0, <<"not", " ", "json">>, <<>>),
      Completed(1, <<LhmNumeric>>, <<"access denied">>) }

EvtProcs ==
    { Completed(0, <<EvtOne>>, <<>>),
      Completed(0, <<EvtNone>>, <<>>),
      Completed(0, <<"<html>">>, <<>>),
      Failed("nolaunch") }

PingReply(os) ==
    IF os = "nt" THEN <<"Reply", "\n", "Average", " ", "=", " ", "23", "ms">>
    ELSE <<"rtt", " ", "=", " ", "11.2", "/", "12.5", "/", "13.9", "/", "0.5">>

PingProcs(os) ==
    { Completed(0, PingReply(os), <<>>),
      Completed(0, <<"Reply">>, <<>>),
      Failed("timeout") }

DnsProcs ==
    { Completed(0, <<"Name:", " ", "google.com", "\n", "Addresses:", " ", "1.2.3.4">>, <<>>),
      Completed(0, <<"***", " ", "can't find">>, <<>>),
      Completed(1, <<"Address:", " ", "1.2.3.4">>, <<>>) }

TracertProcs ==
    { Completed(0, <<"Tracing", "\n", " ", "1", " ", "ms", "\n", " ", "2", " ", "*">>, <<>>),
      Failed("timeout") }

\* a process that is never started
NotRun == Failed("notrun")

SystemInputs ==
    { [psutil |-> FALSE, sq |-> [fails |-> FALSE, parts |-> <<>>]] }
    \cup { [psutil |-> TRUE, sq |-> sq] : sq \in SysQueries }

SmartInputs ==
    { [exists |-> FALSE, scan |-> NotRun, devProcs |-> <<>>] }
    \cup UNION { { [exists |-> TRUE, scan |-> scan, devProcs |-> d] : d \in DevProcSeqs(scan) }
                 : scan \in ScanProcs }

DriverInputs ==
    { [wmi |-> FALSE, wq |-> [failAt |-> 0, drivers |-> <<>>]] }
    \cup { [wmi |-> TRUE, wq |-> wq] : wq \in WmiQueries }

TempInputs ==
    { [exists |-> FALSE, p |-> NotRun] } \cup { [exists |-> TRUE, p |-> p] : p \in LhmProcs }

BugcheckInputs(os) == IF os = "nt" THEN { [p |-> p] : p \in EvtProcs } ELSE { [p |-> NotRun] }

NetworkInputs(os) ==
    { [ping |-> ping, dns |-> dns, tracert |-> tracert] :
        ping \in PingProcs(os), dns \in DnsProcs,
        tracert \in (IF os = "nt" THEN TracertProcs ELSE {NotRun}) }

\* the collector `name` on st, given what the machine answers
Apply(name, st, os, inp) ==
    CASE name = "collect_system" -> collect_system(st, inp.psutil, inp.sq)
      [] name = "collect_smart" -> collect_smart(st, inp.exists, inp.scan, inp.devProcs)
      [] name = "collect_driver_issues" -> collect_driver_issues(st, inp.wmi, inp.wq)
      [] name = "collect_temps" -> collect_temps(st, inp.exists, inp.p)
      [] name = "collect_bugchecks" -> collect_bugchecks(st, os, inp.p)
      [] name = "collect_network" -> collect_network(st, os, inp.ping, inp.dns, inp.tracert)

\* ----------------------------------------------------------------------------
\* Spec: one Diagnostics object, constructed and taken through run_all.
\* ----------------------------------------------------------------------------
RunIdle == proc = NotRun /\ runResult = None
GuiIdle ==
    /\ worker = <<>> /\ q = <<>> /\ result = <<>> /\ tabs = <<>>
    /\ pollArmed = FALSE /\ started = 0 /\ handled = <<>> /\ dialog = <<>>
CliIdle == args = {} /\ cliPc = "idle" /\ cliEnv = <<>> /\ outputs = <<>> /\ roundTrip = <<>>
ExpIdle == expRecord = <<>> /\ cliArchive = <<>> /\ guiArchive = <<>>

Init ==
    /\ pc = "new" /\ results = None /\ calls = <<>> /\ cmds = <<>> /\ returned = None
    /\ osName \in {"nt", "posix"} /\ now = 0 /\ lastInput = None
    /\ RunIdle /\ GuiIdle /\ CliIdle /\ ExpIdle

\* Diagnostics()
Construct ==
    /\ pc = "new"
    /\ \E admin \in BOOLEAN : results' = NewResults(admin, now)
    /\ pc' = "collect_system"
    /\ now' = now + 1
    /\ UNCHANGED <<calls, cmds, returned, osName, lastInput>>
    /\ UNCHANGED <<runVars, guiVars, cliVars, expVars>>

\* run_all calls the collector pc names; `next` is the line after the call
Call(name, next, inp) ==
    /\ pc = name
    /\ LET st == Apply(name, Self(results, cmds), osName, inp)
       IN /\ results' = st.results
          /\ cmds' = st.cmds
    /\ calls' = Append(calls, name)
    /\ lastInput' = inp
    /\ pc' = next
    /\ now' = now + 1
    /\ UNCHANGED <<returned, osName>>
    /\ UNCHANGED <<runVars, guiVars, cliVars, expVars>>

\* collect_system raises out of run_all: nothing catches it there
CollectSystemRaises ==
    /\ pc = "collect_system"
    /\ \E inp \in SystemInputs :
          /\ collect_system_raises(inp.psutil, inp.sq)
          /\ lastInput' = inp
    /\ pc' = "raised"
    /\ calls' = Append(calls, "collect_system")
    /\ now' = now + 1
    /\ UNCHANGED <<results, cmds, returned, osName>>
    /\ UNCHANGED <<runVars, guiVars, cliVars, expVars>>

CollectSystem ==
    \E inp \in SystemInputs :
       /\ ~collect_system_raises(inp.psutil, inp.sq)
       /\ Call("collect_system", "collect_smart", inp)

CollectSmart ==
    \E inp \in SmartInputs : Call("collect_smart", "collect_driver_issues", inp)

CollectDriverIssues ==
    \E inp \in DriverInputs : Call("collect_driver_issues", "collect_temps", inp)

CollectTemps ==
    \E inp \in TempInputs : Call("collect_temps", "collect_bugchecks", inp)

CollectBugchecks ==
    \E inp \in BugcheckInputs(osName) : Call("collect_bugchecks", "collect_network", inp)

CollectNetwork ==
    \E inp \in NetworkInputs(osName) : Call("collect_network", "stamp", inp)

\* lines 254-255: stamp meta.completed and return self.results
Finish ==
    /\ pc = "stamp"
    /\ results' = Stamp(results, now)
    /\ returned' = results'
    /\ pc' = "returned"
    /\ now' = now + 1
    /\ lastInput' = None
    /\ UNCHANGED <<calls, cmds, osName>>
    /\ UNCHANGED <<runVars, guiVars, cliVars, expVars>>

Next ==
    \/ Construct
    \/ CollectSystem
    \/ CollectSystemRaises
    \/ CollectSmart
    \/ CollectDriverIssues
    \/ CollectTemps
    \/ CollectBugchecks
    \/ CollectNetwork
    \/ Finish

Spec == Init /\ [][Next]_vars

\* ----------------------------------------------------------------------------
\* Claims about Diagnostics (checked under Spec)
\* ----------------------------------------------------------------------------
IsPrefix(a, b) == Len(a) <= Len(b) /\ a = SubSeq(b, 1, Len(a))
Last(seq) == seq[Len(seq)]
JustCalled(name) == calls # <<>> /\ Last(calls) = name /\ pc # "returned"

Owner ==
    [ collect_system |-> "system", collect_smart |-> "storage",
      collect_driver_issues |-> "drivers", collect_temps |-> "temps",
      collect_bugchecks |-> "events", collect_network |-> "network" ]

\* C1: in every execution of run_all the six collectors are invoked exactly once
\* each, in the order system, SMART, drivers, temperatures, bugchecks, network;
\* meta.timestamp is there before the first collector starts, meta.completed is
\* written only after the network collector returned, and the record returned
\* carries both stamps.
C1_RunAllOrder ==
    /\ IsPrefix(calls, Order)
    /\ (calls # <<>> => "timestamp" \in DOMAIN results.meta)
    /\ (pc # "new" /\ "completed" \in DOMAIN results.meta => calls = Order /\ pc = "returned")
    /\ (pc = "returned" =>
          returned = results /\ {"timestamp", "completed"} \subseteq DOMAIN returned.meta)
    /\ (pc \in {"returned", "raised"} => calls = Order)

\* C2: with smartctl.exe (LibreHardwareMonitorCLI.exe) absent, collect_smart
\* (collect_temps) returns normally, runs no command of that tool and leaves in
\* storage (temps) the entry saying that the tool is missing.
C2_MissingTool ==
    /\ (JustCalled("collect_smart") /\ ~lastInput.exists) =>
          /\ pc = "collect_driver_issues"
          /\ results.storage = <<MissingSmartctl>>
          /\ \A i \in 1..Len(cmds) : cmds[i] \notin {"smartctl --scan-open", "smartctl -a"}
    /\ (JustCalled("collect_temps") /\ ~lastInput.exists) =>
          /\ pc = "collect_bugchecks"
          /\ results.temps = [sources |-> <<MissingLhm>>, readings |-> <<>>]
          /\ \A i \in 1..Len(cmds) : cmds[i] # "LibreHardwareMonitorCLI --json"

C2_Witness ==
    /\ JustCalled("collect_temps") /\ ~lastInput.exists
    /\ results.storage = <<MissingSmartctl>>

\* an entry (or section) that carries an error field
HasError(entry) == "error" \in DOMAIN entry

\* C3: whenever a probe of a collector fails (non-zero exit, timeout, failure to
\* launch, output that cannot be parsed), the collector's section holds an error
\* string once the collector has returned: SMART scan and per-device probes, the
\* temperature probe, the bugcheck query and the network probes alike.
C3_UniformErrors ==
    /\ (JustCalled("collect_smart") /\ lastInput.exists) =>
          /\ run(lastInput.scan)[1] # 0 => HasError(Last(results.storage))
          /\ \A i \in 1..Len(lastInput.devProcs) :
                run(lastInput.devProcs[i])[1] # 0 => HasError(results.storage[i])
    /\ (JustCalled("collect_temps") /\ lastInput.exists
          /\ (run(lastInput.p)[1] # 0 \/ json_loads(run(lastInput.p)[2]) = JError)) =>
             \/ HasError(results.temps)
             \/ \E i \in 1..Len(results.temps.sources) :
                   results.temps.sources[i] # <<"LibreHardwareMonitorCLI">>
    /\ (JustCalled("collect_bugchecks") /\ osName = "nt"
          /\ (run(lastInput.p)[1] # 0 \/ json_loads(run(lastInput.p)[2]) = JError)) =>
             HasError(results.events)
    /\ (JustCalled("collect_network")
          /\ (run(lastInput.ping)[1] # 0 \/ run(lastInput.dns)[1] # 0)) =>
             HasError(results.network)

\* C4: whatever the probes and the OS / psutil / WMI queries answer, run_all ends
\* normally: no failure inside a collector keeps the later collectors from
\* running, and the record returned has meta.completed and all eight sections.
C4_AlwaysCompletes ==
    /\ pc # "raised"
    /\ (pc # "new" /\ Len(calls) < Len(Order) => pc = Order[Len(calls) + 1])
    /\ (pc = "returned" =>
          /\ "completed" \in DOMAIN returned.meta
          /\ DOMAIN returned = Sections)

\* the object as constructed, but for one section
Isolated(res, section) ==
    [NewResults(res.meta.admin, res.meta.timestamp) EXCEPT ![section] = res[section]]

\* one call of a collector, as C5 wants it
C5_Step ==
    (pc \in DOMAIN Owner /\ pc' # pc) =>
        IF pc' = "raised" THEN results' = results
        ELSE /\ \A s \in Sections \ {Owner[pc]} : results'[s] = results[s]
             /\ results'[Owner[pc]] =
                   Apply(pc, Self(Isolated(results, Owner[pc]), <<>>), osName,
                         lastInput').results[Owner[pc]]

\* C5: a collector changes only the section it owns (so never meta or battery),
\* and what it leaves there is what it would leave on an object whose other
\* sections are still as constructed: it does not depend on the other collectors.
C5_Frame == [][C5_Step]_vars

C5_Witness ==
    /\ pc = "stamp"
    /\ results.storage # <<>> /\ results.drivers # <<>>
    /\ results.temps.readings # <<>> /\ results.network.ping_ok

\* ----------------------------------------------------------------------------
\* SpecRun: run() on its own, on every short output of the child process.
\* ----------------------------------------------------------------------------
Alphabet == {" ", "\n", "a"}
Texts == UNION { [1..n -> Alphabet] : n \in 0..MaxLen }
ExitCodes == {0, 1, 2}

RunProcs ==
    { Completed(code, out, err) : code \in ExitCodes, out \in Texts, err \in Texts }
    \cup { Failed("timeout"), Failed("nolaunch") }
    \cup { Undecodable(code) : code \in ExitCodes }

DiagIdle ==
    /\ pc = "idle" /\ results = None /\ calls = <<>> /\ cmds = <<>> /\ returned = None
    /\ osName = "nt" /\ now = 0 /\ lastInput = None

InitRun ==
    /\ proc \in RunProcs /\ runResult = None
    /\ DiagIdle /\ GuiIdle /\ CliIdle /\ ExpIdle

RunProbe ==
    /\ runResult = None
    /\ runResult' = run(proc)
    /\ UNCHANGED <<proc, diagVars, guiVars, cliVars, expVars>>

NextRun == RunProbe

SpecRun == InitRun /\ [][NextRun]_vars

\* t is s without its leading and trailing whitespace
IsStripOf(t, s) ==
    \E i \in 1..(Len(s) + 1) : \E j \in (i - 1)..Len(s) :
       /\ t = SubSeq(s, i, j)
       /\ \A k \in 1..(i - 1) : IsWs(s[k])
       /\ \A k \in (j + 1)..Len(s) : IsWs(s[k])
       /\ (t # <<>> => ~IsWs(t[1]) /\ ~IsWs(t[Len(t)]))

\* C6 as stated: run never raises; a command that completes within the timeout
\* gives its exit code and its stripped stdout and stderr; one that cannot be
\* launched or exceeds the timeout gives (1, "", message).
C6_RunOriginal ==
    runResult # None =>
       /\ Len(runResult) = 3
       /\ proc.kind \in {"completed", "undecodable"} => runResult[1] = proc.code
       /\ proc.kind = "completed" =>
             IsStripOf(runResult[2], proc.out) /\ IsStripOf(runResult[3], proc.err)
       /\ proc.kind \in {"timeout", "nolaunch"} =>
             runResult[1] = 1 /\ runResult[2] = <<>> /\ Truthy(runResult[3])

\* C6 as amended: the same, but a command whose output cannot be decoded as
\* text is reported like one that could not be launched: (1, "", message).
C6_RunTriple ==
    runResult # None =>
       /\ Len(runResult) = 3
       /\ proc.kind = "completed" =>
             /\ runResult[1] = proc.code
             /\ IsStripOf(runResult[2], proc.out) /\ IsStripOf(runResult[3], proc.err)
       /\ proc.kind # "completed" =>
             runResult[1] = 1 /\ runResult[2] = <<>> /\ Truthy(runResult[3])

C6_Witness ==
    /\ runResult # None /\ proc.kind = "completed"
    /\ runResult[2] # <<>> /\ Len(runResult[2]) < Len(proc.out)

\* ----------------------------------------------------------------------------
\* gui.py: App
\* ----------------------------------------------------------------------------
TabNames == {"Summary", "Overview", "Storage", "Drivers", "Temps", "Network", "Events", "Raw"}

\* the tabs render() has filled when it reaches line `stage` of its eight set() calls
TabOrder == <<"Summary", "Overview", "Storage", "Drivers", "Temps", "Network", "Events", "Raw">>

\* lines 102-110
RECURSIVE StorageOk(_, _, _)
StorageOk(storage, ok, any) ==
    IF storage = <<>> THEN ok /\ any
    ELSE LET drive == Head(storage)
             bad == \/ Truthy(Get(drive, "error", <<>>))
                    \/ (Truthy(Get(drive, "health", <<>>)) /\ drive.health[1] # "PASSED")
         IN StorageOk(Tail(storage), ok /\ ~bad, TRUE)

\* (t.get("value_c") or 0) is no number: sum() raises TypeError
TempTermRaises(reading) == JTruthy(reading.value_c) /\ reading.value_c.t # "num"

\* (t.get("value_c") or 0)
TempTerm(reading) == IF JTruthy(reading.value_c) THEN reading.value_c.v ELSE 0

RECURSIVE TempSum(_)
TempSum(readings) == IF readings = <<>> THEN 0 ELSE TempTerm(Head(readings)) + TempSum(Tail(readings))

\* line 113 raises
SummaryRaises(rec) ==
    \E i \in 1..Len(rec.temps.readings) : TempTermRaises(rec.temps.readings[i])

\* lines 204-211 raise: bugchecks that cannot be iterated, or an event whose
\* Message cannot be sliced
EventsRaise(rec) ==
    LET data == rec.events.bugchecks
    IN \/ data.t \notin {"list", "str", "dict"}
       \/ /\ data.t = "list"
          /\ \E i \in 1..Len(data.v) :
                /\ data.v[i].t = "dict"
                /\ LET m == Get(data.v[i].v, "Message", JNull)
                   IN JTruthy(m) /\ m.t \notin {"str", "list"}

\* the lines of the Summary tab (lines 99-126)
SummaryText(rec) ==
    [ admin_warning |-> ~Get(rec.meta, "admin", FALSE),
      smart |-> IF StorageOk(rec.storage, TRUE, FALSE) THEN "OK"
                ELSE "Issues found or unavailable",
      drivers |-> IF Len(rec.drivers) = 0 THEN "OK" ELSE <<Len(rec.drivers), "with problems">>,
      temps |-> IF rec.temps.readings = <<>> THEN "Unknown"
                ELSE <<"avg", TempSum(rec.temps.readings), "/", Len(rec.temps.readings)>>,
      network |-> rec.network ]

\* what one tab shows of a record; the run is known by its construction time
TabText(name, rec) ==
    [ kind |-> "rendered", run |-> rec.meta.timestamp,
      text |-> CASE name = "Summary" -> SummaryText(rec)
                 [] name = "Overview" -> rec.system
                 [] name = "Storage" -> rec.storage
                 [] name = "Drivers" -> rec.drivers
                 [] name = "Temps" -> rec.temps
                 [] name = "Network" -> rec.network
                 [] name = "Events" -> rec.events
                 [] OTHER -> rec ]

\* the number of tabs render() sets before it raises (8: it does not raise)
RenderReach(rec) ==
    IF SummaryRaises(rec) THEN 0 ELSE IF EventsRaise(rec) THEN 6 ELSE 8

\* render(): the tabs afterwards, given what they showed before
render(shown, rec) ==
    [name \in TabNames |->
        IF \E i \in 1..RenderReach(rec) : TabOrder[i] = name
        THEN TabText(name, rec) ELSE shown[name]]

Collecting == [name \in TabNames |-> [kind |-> "collecting", run |-> 0, text |-> "Collecting"]]
Blank == [name \in TabNames |-> [kind |-> "blank", run |-> 0, text |-> ""]]

IsAlive(state) == state \in {"running", "finishing"}

\* getattr(self, "worker", None) and self.worker.is_alive()
WorkerAlive(threads) == threads # <<>> /\ IsAlive(threads[Len(threads)])

\* run_diagnostics without the is_alive guard of line 64
run_diagnostics_unguarded(threads) == TRUE

\* whether run_diagnostics goes on to start a thread (lines 64-66)
run_diagnostics_accepts(threads) == ~WorkerAlive(threads)

\* what the machine answers while the worker of a run collects
BaseEnv ==
    [ admin |-> TRUE, os |-> "nt",
      psutil |-> TRUE, sq |-> CHOOSE x \in SysQueries : ~x.fails,
      smartctl |-> TRUE, scan |-> Completed(0, ScanOut(1), <<>>), devProcs |-> <<SmartPassed>>,
      wmi |-> FALSE, wq |-> [failAt |-> 0, drivers |-> <<>>],
      lhm |-> TRUE, lhmProc |-> Completed(0, <<LhmNumeric>>, <<>>),
      evtProc |-> Completed(0, <<EvtNone>>, <<>>),
      ping |-> Completed(0, PingReply("nt"), <<>>),
      dns |-> Completed(0, <<"Address:", " ", "1.2.3.4">>, <<>>),
      tracert |-> Completed(0, <<"1", " ", "ms">>, <<>>) ]

GuiEnvs ==
    { BaseEnv,
      [BaseEnv EXCEPT !.lhmProc = Completed(0, <<LhmString>>, <<>>)],
      [BaseEnv EXCEPT !.sq = [fails |-> TRUE, parts |-> <<>>]],
      [BaseEnv EXCEPT !.scan = Completed(0, <<>>, <<>>), !.devProcs = <<>>],
      [BaseEnv EXCEPT !.smartctl = FALSE, !.admin = FALSE] }

\* _worker: the message it puts (lines 73-78); t is the time the run starts
WorkerMessage(env, t) ==
    LET out == run_all(env, t)
    IN IF out.raised THEN [kind |-> "error", run |-> t, payload |-> <<"psutil failed">>]
       ELSE [kind |-> "done", run |-> t, payload |-> out.results]

InitGui ==
    /\ worker = <<>> /\ q = <<>> /\ result = <<>> /\ tabs = Blank
    /\ pollArmed = TRUE /\ started = 0 /\ handled = <<>> /\ dialog = <<>>
    /\ DiagIdle /\ RunIdle /\ CliIdle /\ ExpIdle

\* 'Run diagnostics' while a worker is alive (lines 64-66)
ClickRejected ==
    /\ ~run_diagnostics_accepts(worker)
    /\ Len(SelectSeq(dialog, LAMBDA d : d = "Diagnostics already running")) < MaxDialogs
    /\ dialog' = Append(dialog, "Diagnostics already running")
    /\ UNCHANGED <<worker, q, result, tabs, pollArmed, started, handled>>
    /\ UNCHANGED <<diagVars, runVars, cliVars, expVars>>

\* 'Run diagnostics' otherwise (lines 67-70)
ClickAccepted ==
    /\ run_diagnostics_accepts(worker)
    /\ started < MaxRuns
    /\ tabs' = Collecting
    /\ worker' = Append(worker, "running")
    /\ started' = started + 1
    /\ UNCHANGED <<q, result, pollArmed, handled, dialog>>
    /\ UNCHANGED <<diagVars, runVars, cliVars, expVars>>

\* _worker, up to and including its q.put
WorkerPut ==
    \E i \in 1..Len(worker) : \E env \in GuiEnvs :
       /\ worker[i] = "running"
       /\ q' = Append(q, WorkerMessage(env, i))
       /\ worker' = [worker EXCEPT ![i] = "finishing"]
       /\ UNCHANGED <<result, tabs, pollArmed, started, handled, dialog>>
       /\ UNCHANGED <<diagVars, runVars, cliVars, expVars>>

\* _worker returns: the thread is no longer alive
WorkerExit ==
    \E i \in 1..Len(worker) :
       /\ worker[i] = "finishing"
       /\ worker' = [worker EXCEPT ![i] = "dead"]
       /\ UNCHANGED <<q, result, tabs, pollArmed, started, handled, dialog>>
       /\ UNCHANGED <<diagVars, runVars, cliVars, expVars>>

\* poll_queue on an empty queue (lines 83-85): it re-arms itself
PollEmpty ==
    /\ pollArmed /\ q = <<>>
    /\ pollArmed' = TRUE
    /\ UNCHANGED <<worker, q, result, tabs, started, handled, dialog>>
    /\ UNCHANGED <<diagVars, runVars, cliVars, expVars>>

\* poll_queue taking a 'done' message (lines 87-89, 92); render may raise, and
\* then line 92 is not reached
PollDone ==
    /\ pollArmed /\ q # <<>> /\ Head(q).kind = "done"
    /\ q' = Tail(q)
    /\ handled' = Append(handled, Head(q).run)
    /\ result' = <<Head(q).payload>>
    /\ tabs' = render(tabs, Head(q).payload)
    /\ pollArmed' = (RenderReach(Head(q).payload) = Len(TabOrder))
    /\ UNCHANGED <<worker, started, dialog>>
    /\ UNCHANGED <<diagVars, runVars, cliVars, expVars>>

\* poll_queue taking an 'error' message (lines 90-92)
PollError ==
    /\ pollArmed /\ q # <<>> /\ Head(q).kind = "error"
    /\ q' = Tail(q)
    /\ handled' = Append(handled, Head(q).run)
    /\ dialog' = Append(dialog, "Diagnostics error")
    /\ pollArmed' = TRUE
    /\ UNCHANGED <<worker, result, tabs, started>>
    /\ UNCHANGED <<diagVars, runVars, cliVars, expVars>>

NextGui ==
    \/ ClickRejected
    \/ ClickAccepted
    \/ WorkerPut
    \/ WorkerExit
    \/ PollEmpty
    \/ PollDone
    \/ PollError

SpecGui == InitGui /\ [][NextGui]_vars

\* ----------------------------------------------------------------------------
\* Claims about the desktop window (checked under SpecGui)
\* ----------------------------------------------------------------------------
AliveCount == Cardinality({i \in 1..Len(worker) : IsAlive(worker[i])})

\* one step of the window, as C7 wants it
C7_Step ==
    /\ (Len(dialog') > Len(dialog) /\ Last(dialog') = "Diagnostics already running") =>
          /\ AliveCount = 1
          /\ worker' = worker /\ q' = q /\ tabs' = tabs
    /\ (Len(worker') > Len(worker)) =>
          /\ AliveCount = 0
          /\ Len(worker') = Len(worker) + 1
          /\ AliveCount' = 1

\* C7: at most one worker thread is alive at any time; a click while a worker is
\* alive starts no thread, puts nothing on the queue and leaves the tabs alone
\* (it only shows 'Diagnostics already running'); a click while none is alive
\* starts exactly one worker.
C7_SingleWorker == [](AliveCount <= 1) /\ [][C7_Step]_vars

C7_Witness ==
    /\ Len(worker) >= 2
    /\ dialog # <<>> /\ dialog[1] = "Diagnostics already running"
    /\ AliveCount = 1

\* the messages of run i that were put: those waiting and those taken
Messages(i) ==
    Len(SelectSeq(q, LAMBDA m : m.run = i)) + Len(SelectSeq(handled, LAMBDA r : r = i))

\* C8: every worker run puts exactly one message; every message put is taken by
\* poll_queue (a message waits only while a poll is pending); messages are taken
\* in the order the runs were started; a 'done' message becomes self.result and
\* is what the tabs show until the next run starts.
C8_QueueDelivery ==
    /\ \A i \in 1..Len(worker) : Messages(i) = IF worker[i] = "running" THEN 0 ELSE 1
    /\ (q # <<>> => pollArmed)
    /\ \A i \in 1..Len(handled) : \A j \in 1..Len(handled) : i < j => handled[i] < handled[j]
    /\ (result # <<>> /\ tabs # Collecting) =>
          \A name \in TabNames : tabs[name] = TabText(name, result[1])

\* ----------------------------------------------------------------------------
\* reports.py and the zip bundle
\* ----------------------------------------------------------------------------
\* json.dumps(value, indent=indent): the document, in the layout asked for
json_dumps(value, indent) == [fmt |-> "json", indent |-> indent, value |-> value]

\* the text with &, < and > replaced
_esc(value) == [fmt |-> "escaped", of |-> value]

HtmlSections == <<"system", "storage", "drivers", "temps", "network", "events">>

\* section.title()
Title ==
    [ system |-> "System", storage |-> "Storage", drivers |-> "Drivers",
      temps |-> "Temps", network |-> "Network", events |-> "Events" ]

render_html(payload) ==
    LET meta == Get(payload, "meta", <<>>)
    IN [ fmt |-> "html",
         h1 |-> <<APP_NAME, "report">>,
         utc |-> _esc(Get(meta, "completed", <<>>)),
         admin |-> Get(meta, "admin", None),
         blocks |-> [ i \in 1..Len(HtmlSections) |->
                        [ h2 |-> Title[HtmlSections[i]],
                          pre |-> _esc(json_dumps(Get(payload, HtmlSections[i], <<>>), 2)) ] ] ]

\* f"smartctl_{idx}.txt", idx counted from 0
LogNames == <<"smartctl_0.txt", "smartctl_1.txt", "smartctl_2.txt", "smartctl_3.txt">>
LogName(idx) == LogNames[idx + 1]

RawText(raw) == [fmt |-> "text", text |-> raw]

\* the logs numbered one after the other instead of by position
RECURSIVE export_report_logs_renumbered(_, _)
export_report_logs_renumbered(storage, idx) ==
    IF storage = <<>> THEN <<>>
    ELSE IF Truthy(Get(Head(storage), "raw", <<>>))
         THEN <<[name |-> LogName(idx), data |-> RawText(Head(storage).raw)]>>
              \o export_report_logs_renumbered(Tail(storage), idx + 1)
         ELSE export_report_logs_renumbered(Tail(storage), idx)

\* cli.py lines 79-81: for idx, drive in enumerate(storage): if drive.get("raw")
RECURSIVE cli_zip_logs(_, _)
cli_zip_logs(storage, idx) ==
    IF storage = <<>> THEN <<>>
    ELSE (IF Truthy(Get(Head(storage), "raw", <<>>))
          THEN <<[name |-> LogName(idx), data |-> RawText(Head(storage).raw)]>>
          ELSE <<>>)
         \o cli_zip_logs(Tail(storage), idx + 1)

\* cli.py lines 76-81: the entries written to the archive, in order
cli_zip(res) ==
    << [name |-> "report.json", data |-> json_dumps(res, 2)],
       [name |-> "report.html", data |-> render_html(res)] >>
    \o cli_zip_logs(Get(res, "storage", <<>>), 0)

\* gui.py lines 242-244
RECURSIVE export_report_logs(_, _)
export_report_logs(storage, idx) ==
    IF storage = <<>> THEN <<>>
    ELSE (IF Truthy(Get(Head(storage), "raw", <<>>))
          THEN <<[name |-> LogName(idx), data |-> RawText(Head(storage).raw)]>>
          ELSE <<>>)
         \o export_report_logs(Tail(storage), idx + 1)

\* filename.lower() on the extension
Lower(ext) == IF ext = ".JSON" THEN ".json" ELSE ext

\* what the save dialog returns: "" when cancelled, else a path
Filenames ==
    { [stem |-> "", ext |-> ""],
      [stem |-> "report", ext |-> ".json"],
      [stem |-> "report", ext |-> ".JSON"],
      [stem |-> "bundle", ext |-> ".zip"],
      [stem |-> "bundle", ext |-> ""] }

\* App.export_report (gui.py lines 218-247); shown is self.result
export_report(shown, filename) ==
    IF shown = <<>>
    THEN [kind |-> "refused", entries |-> <<>>]
    ELSE IF filename.stem = ""
    THEN [kind |-> "cancelled", entries |-> <<>>]
    ELSE IF Lower(filename.ext) = ".json"
    THEN [ kind |-> "files",
           entries |-> << [name |-> <<filename.stem, filename.ext>>,
                           data |-> json_dumps(shown[1], 2)],
                          [name |-> <<filename.stem, ".html">>,
                           data |-> render_html(shown[1])] >> ]
    ELSE [ kind |-> "zip",
           entries |-> << [name |-> "report.json", data |-> json_dumps(shown[1], 2)],
                          [name |-> "report.html", data |-> render_html(shown[1])] >>
                       \o export_report_logs(Get(shown[1], "storage", <<>>), 0) ]

\* ----------------------------------------------------------------------------
\* SpecExport: one record, exported by the command line and by the window
\* ----------------------------------------------------------------------------
ExpDevProcs == { SmartPassed, SmartFailing, SmartNoOutput, SmartSilentError }

ExpEnvs ==
    { [BaseEnv EXCEPT !.scan = Completed(0, ScanOut(Len(ps)), <<>>), !.devProcs = ps] :
        ps \in UNION { [1..n -> ExpDevProcs] : n \in 0..MaxDevices } }
    \cup { [BaseEnv EXCEPT !.smartctl = FALSE] }

InitExport ==
    /\ expRecord \in {<<>>} \cup { <<run_all(env, 1).results>> : env \in ExpEnvs }
    /\ cliArchive = <<>> /\ guiArchive = <<>>
    /\ DiagIdle /\ RunIdle /\ GuiIdle /\ CliIdle

\* cli --zip on the record
CliZip ==
    /\ expRecord # <<>>
    /\ cliArchive' = <<cli_zip(expRecord[1])>>
    /\ UNCHANGED <<expRecord, guiArchive, diagVars, runVars, guiVars, cliVars>>

\* the window's Export button with the record as self.result
GuiExport ==
    \E filename \in Filenames :
       /\ guiArchive' = <<export_report(expRecord, filename)>>
       /\ UNCHANGED <<expRecord, cliArchive, diagVars, runVars, guiVars, cliVars>>

NextExport == CliZip \/ GuiExport

SpecExport == InitExport /\ [][NextExport]_vars

\* the positions of storage whose entry has raw text
Logged(storage) == {i \in 1..Len(storage) : Truthy(Get(storage[i], "raw", <<>>))}
ExpectedNames(storage) ==
    {"report.json", "report.html"} \cup {LogName(i - 1) : i \in Logged(storage)}
EntrySet(entries) == {entries[i] : i \in 1..Len(entries)}
EntryNames(entries) == {entries[i].name : i \in 1..Len(entries)}

\* the archive is the bundle C10 describes for the record
IsBundle(entries, rec) ==
    /\ EntryNames(entries) = ExpectedNames(rec.storage)
    /\ Len(entries) = Cardinality(ExpectedNames(rec.storage))
    /\ \A i \in Logged(rec.storage) :
          [name |-> LogName(i - 1), data |-> RawText(rec.storage[i].raw)] \in EntrySet(entries)
    /\ [name |-> "report.json", data |-> json_dumps(rec, 2)] \in EntrySet(entries)
    /\ [name |-> "report.html", data |-> render_html(rec)] \in EntrySet(entries)

GuiZipped == guiArchive # <<>> /\ guiArchive[1].kind = "zip"

\* C10: a zip bundle holds exactly report.json, report.html and smartctl_<i>.txt
\* for each position i of storage whose entry has a non-empty raw field, with
\* that raw text; the command line's bundle and the window's bundle of the same
\* record have the same entry names with the same contents.
C10_ZipBundle ==
    /\ cliArchive # <<>> => IsBundle(cliArchive[1], expRecord[1])
    /\ GuiZipped => IsBundle(guiArchive[1].entries, expRecord[1])
    /\ (cliArchive # <<>> /\ GuiZipped) =>
          EntrySet(cliArchive[1]) = EntrySet(guiArchive[1].entries)

C10_Witness ==
    /\ cliArchive # <<>> /\ GuiZipped
    /\ Len(expRecord[1].storage) = 2
    /\ Logged(expRecord[1].storage) = {2}
    /\ "error" \in DOMAIN expRecord[1].storage[1]

\* ----------------------------------------------------------------------------
\* cli.py: SpecCli, one invocation of cli(argv)
\* ----------------------------------------------------------------------------
Flags == {"json", "save_json", "save_html", "zip", "headless", "pretty", "quiet"}

\* line 41
headless(a) == a \cap {"headless", "json", "save_json", "save_html", "zip"} # {}

\* JSON goes to stdout only when --json is given
wants_stdout_json_only(a) == "json" \in a

\* line 55
wants_stdout(a) == "json" \in a \/ a \cap {"save_json", "save_html", "zip"} = {}

\* line 56
Indent(a) ==
    IF "pretty" \in a \/ "json" \in a \/ a \cap {"save_json", "save_html", "zip"} = {}
    THEN 2 ELSE 0

\* run_headless (lines 19-21)
run_headless(env) == run_all(env, 1)

\* print(...) unless --quiet
Say(out, a, line) ==
    IF "quiet" \in a THEN out ELSE [out EXCEPT !.stdout = Append(@, line)]

\* a file written at the path given with the flag
Written(out, flag, content) ==
    [out EXCEPT !.files = Update(@, [f \in {flag} |-> content])]

CliEnvs ==
    { [os |-> o, tk |-> t, diag |-> d] :
        o \in {"nt", "posix"}, t \in BOOLEAN,
        d \in { BaseEnv,
                [BaseEnv EXCEPT !.sq = [fails |-> TRUE, parts |-> <<>>]],
                [BaseEnv EXCEPT !.smartctl = FALSE, !.admin = FALSE] } }

NoOutputs ==
    [ collections |-> 0, record |-> <<>>, gui |-> FALSE, stdout |-> <<>>,
      files |-> <<>>, exit |-> -1 ]

InitCli ==
    /\ args \in SUBSET Flags
    /\ cliEnv \in { <<e>> : e \in CliEnvs }
    /\ cliPc = "start" /\ outputs = NoOutputs /\ roundTrip = <<>>
    /\ DiagIdle /\ RunIdle /\ GuiIdle /\ ExpIdle

CliFrame == UNCHANGED <<args, cliEnv, roundTrip, diagVars, runVars, guiVars, expVars>>

\* lines 43-47: parser.error exits with status 2
CliUsageError ==
    /\ cliPc = "start" /\ ~headless(args)
    /\ cliEnv[1].os # "nt" \/ ~cliEnv[1].tk
    /\ outputs' = [outputs EXCEPT !.exit = 2]
    /\ cliPc' = "usage"
    /\ CliFrame

\* lines 48-49
CliRunGui ==
    /\ cliPc = "start" /\ ~headless(args)
    /\ cliEnv[1].os = "nt" /\ cliEnv[1].tk
    /\ outputs' = [outputs EXCEPT !.gui = TRUE, !.exit = 0]
    /\ cliPc' = "done"
    /\ CliFrame

\* line 51, run_all raising: cli ends with the exception
CliCollectRaises ==
    /\ cliPc = "start" /\ headless(args)
    /\ run_headless(cliEnv[1].diag).raised
    /\ outputs' = [outputs EXCEPT !.collections = @ + 1, !.exit = 1]
    /\ cliPc' = "raised"
    /\ CliFrame

\* lines 51-53
CliCollect ==
    /\ cliPc = "start" /\ headless(args)
    /\ ~run_headless(cliEnv[1].diag).raised
    /\ LET rec == run_headless(cliEnv[1].diag).results
       IN outputs' = Say([outputs EXCEPT !.collections = @ + 1, !.record = <<rec>>],
                         args, [kind |-> "status", text |-> "diagnostics completed"])
    /\ cliPc' = "stdout"
    /\ CliFrame

\* lines 55-58
CliStdout ==
    /\ cliPc = "stdout"
    /\ outputs' = IF wants_stdout(args)
                  THEN [outputs EXCEPT !.stdout =
                          Append(@, [kind |-> "json",
                                     text |-> json_dumps(outputs.record[1], Indent(args))])]
                  ELSE outputs
    /\ cliPc' = "save_json"
    /\ CliFrame

\* lines 60-63, with write_json (lines 24-27)
CliSaveJson ==
    /\ cliPc = "save_json"
    /\ outputs' = IF "save_json" \in args
                  THEN Say(Written(outputs, "save_json", json_dumps(outputs.record[1], 2)),
                           args, [kind |-> "status", text |-> "JSON saved"])
                  ELSE outputs
    /\ cliPc' = "save_html"
    /\ CliFrame

\* lines 65-70
CliSaveHtml ==
    /\ cliPc = "save_html"
    /\ outputs' = IF "save_html" \in args
                  THEN Say(Written(outputs, "save_html", render_html(outputs.record[1])),
                           args, [kind |-> "status", text |-> "HTML saved"])
                  ELSE outputs
    /\ cliPc' = "zip"
    /\ CliFrame

\* lines 72-85
CliBundle ==
    /\ cliPc = "zip"
    /\ outputs' = [ (IF "zip" \in args
                     THEN Say(Written(outputs, "zip", cli_zip(outputs.record[1])),
                              args, [kind |-> "status", text |-> "ZIP bundle saved"])
                     ELSE outputs) EXCEPT !.exit = 0 ]
    /\ cliPc' = "done"
    /\ CliFrame

NextCli ==
    \/ CliUsageError
    \/ CliRunGui
    \/ CliCollectRaises
    \/ CliCollect
    \/ CliStdout
    \/ CliSaveJson
    \/ CliSaveHtml
    \/ CliBundle

SpecCli == InitCli /\ [][NextCli]_vars

\* what one invocation has produced
HasFile(flag) == flag \in DOMAIN outputs.files
PrintedJson == \E i \in 1..Len(outputs.stdout) : outputs.stdout[i].kind = "json"
Ended == cliPc \in {"done", "usage", "raised"}
GuiPossible == cliEnv[1].os = "nt" /\ cliEnv[1].tk

\* the outputs are those the flags select, each made from the one record
OutputsAsSelected ==
    /\ outputs.collections = 1 /\ ~outputs.gui /\ outputs.record # <<>>
    /\ HasFile("save_json") <=> "save_json" \in args
    /\ HasFile("save_html") <=> "save_html" \in args
    /\ HasFile("zip") <=> "zip" \in args
    /\ PrintedJson <=> ("json" \in args \/ ~(\E f \in {"save_json", "save_html", "zip"} : f \in args))
    /\ HasFile("save_json") => outputs.files.save_json = json_dumps(outputs.record[1], 2)
    /\ HasFile("save_html") => outputs.files.save_html = render_html(outputs.record[1])
    /\ HasFile("zip") => outputs.files.zip = cli_zip(outputs.record[1])
    /\ \A i \in 1..Len(outputs.stdout) :
          outputs.stdout[i].kind = "json" => outputs.stdout[i].text.value = outputs.record[1]

NetPings(os) ==
    PingProcs(os)
    \cup { Completed(1, PingReply(os), <<>>),
           Completed(0, <<"Request", " ", "timed", " ", "out", "\n">> \o PingReply(os) \o <<"\n">>, <<>>),
           Completed(2, <<>>, <<"unknown host">>),
           Undecodable(0) }

NetDns ==
    DnsProcs
    \cup { Completed(0, <<"Server:", " ", "dns", "\n", "Address:", " ", "1.2.3.4">>, <<>>),
           Completed(0, <<>>, <<"Address:", " ", "1.2.3.4">>),
           Failed("nolaunch") }

NetTracerts ==
    TracertProcs
    \cup { Completed(0, <<"Tracing", " ", "1.1.1.1", "\n", "\n", " ", " ", "1", " ", "ms", "\n",
                          "1.1.1.1", " ", "reached", "\n", "2", "\n", "*", " ", "3">>, <<>>),
           Completed(1, <<" ", "1", " ", "*", "\n">>, <<>>),
           Completed(0, <<"\n", " ">>, <<>>),
           Completed(0, <<"Unable", " ", "to", " ", "resolve">>, <<>>) }

InitNet ==
    /\ osName \in {"nt", "posix"}
    /\ pc = "collect_network" /\ calls = <<>> /\ cmds = <<>> /\ returned = None
    /\ results \in { NewResults(a, 0) : a \in BOOLEAN }
    /\ now = 0 /\ lastInput = None
    /\ RunIdle /\ GuiIdle /\ CliIdle /\ ExpIdle

\* one call of collect_network on a fresh object
NetProbe ==
    /\ pc = "collect_network"
    /\ \E ping \in NetPings(osName) : \E dns \in NetDns :
       \E tracert \in (IF osName = "nt" THEN NetTracerts ELSE {NotRun}) :
          LET st == collect_network(Self(results, cmds), osName, ping, dns, tracert)
          IN /\ results' = st.results
             /\ cmds' = st.cmds
             /\ lastInput' = [ping |-> ping, dns |-> dns, tracert |-> tracert]
    /\ calls' = <<"collect_network">>
    /\ pc' = "stamp"
    /\ UNCHANGED <<returned, osName, now, runVars, guiVars, cliVars, expVars>>

NextNet == NetProbe

SpecNet == InitNet /\ [][NextNet]_vars

\* the positions of the ping output where the average pattern matches
AverageAt(out) ==
    { i \in 1..Len(out) :
         MatchAt(out, i, IF osName = "nt" THEN AveragePattern ELSE RttPattern) }

\* the lines that begin with optional whitespace and then a digit
HopLines(out) ==
    LET lines == SplitLines(out)
    IN { i \in 1..Len(lines) :
            \E k \in 1..Len(lines[i]) :
               /\ lines[i][k] \in DigitLed
               /\ \A j \in 1..(k - 1) : IsWs(lines[i][j]) }

\* C11: ping_ok iff the ping probe gave code 0; ping_ms is the average found in
\* the ping output when ping_ok and the average pattern is there, "N/A" in every
\* other case; dns_ok iff nslookup gave code 0 and printed "Address";
\* tracert_hops counts the tracert lines that begin with optional whitespace and
\* a digit, and is 0 when tracert is not run or prints nothing.
C11_NetworkFields ==
    (pc = "stamp" /\ calls = <<"collect_network">>) =>
       LET n == results.network
           ping == run(lastInput.ping)
           dns == run(lastInput.dns)
           tracert == run(lastInput.tracert)
       IN /\ n.ping_ok = (ping[1] = 0)
          /\ IF n.ping_ok /\ AverageAt(ping[2]) # {}
             THEN \E i \in AverageAt(ping[2]) :
                     /\ \A j \in AverageAt(ping[2]) : i <= j
                     /\ n.ping_ms = ping[2][i + 4]
                     /\ n.ping_ms \in Numeric
             ELSE n.ping_ms = "N/A"
          /\ n.dns_ok = (dns[1] = 0 /\ \E i \in 1..Len(dns[2]) : dns[2][i] \in AddressLex)
          /\ n.tracert_hops =
                IF osName = "nt" THEN Cardinality(HopLines(tracert[2])) ELSE 0
          /\ (lastInput.tracert = NotRun \/ tracert[2] = <<>>) => n.tracert_hops = 0

C11_Witness ==
    /\ pc = "stamp" /\ calls = <<"collect_network">>
    /\ ~results.network.ping_ok /\ AverageAt(lastInput.ping.out) # {}
    /\ results.network.dns_ok
    /\ results.network.tracert_hops = 3

\* ----------------------------------------------------------------------------
\* JSON text: what json.dump / json.dumps write and what json.loads reads back
\* ----------------------------------------------------------------------------
DigitChars == <<"0", "1", "2", "3", "4", "5", "6", "7", "8", "9">>
IsDigit(c) == \E d \in 1..Len(DigitChars) : DigitChars[d] = c
DigitValue(c) == (CHOOSE d \in 1..Len(DigitChars) : DigitChars[d] = c) - 1

\* repr of a non-negative int, digit by digit
RECURSIVE IntLex(_)
IntLex(n) ==
    IF n < Len(DigitChars) THEN <<DigitChars[n + 1]>>
    ELSE IntLex(n \div Len(DigitChars)) \o <<DigitChars[(n % Len(DigitChars)) + 1]>>

\* a string written without any escaping
RECURSIVE Escape_plain(_)
Escape_plain(s) == IF s = <<>> THEN <<>> ELSE <<Head(s)>> \o Escape_plain(Tail(s))

\* the escapes of the quote, the backslash and the newline
EscapeLex(c) ==
    CASE c = "\"" -> <<"\\", "\"">>
      [] c = "\\" -> <<"\\", "\\">>
      [] c = "\n" -> <<"\\", "n">>
      [] OTHER -> <<c>>

RECURSIVE Escape(_)
Escape(s) == IF s = <<>> THEN <<>> ELSE EscapeLex(Head(s)) \o Escape(Tail(s))

\* indent=None is indent 0 here: items on one line, separated by ", "
Newline(indent, depth) ==
    IF indent = 0 THEN <<>> ELSE <<"\n">> \o [i \in 1..(indent * depth) |-> " "]
ItemSep(indent, depth) ==
    IF indent = 0 THEN <<",", " ">> ELSE <<",">> \o Newline(indent, depth)

\* the keys of a dict in the order they are written (a fixed order per key set;
\* Python writes a dict, and reads it back, in insertion order)
RECURSIVE KeySeq(_)
KeySeq(keys) ==
    IF keys = {} THEN <<>>
    ELSE LET k == CHOOSE x \in keys : TRUE IN <<k>> \o KeySeq(keys \ {k})

RECURSIVE Encode(_, _, _)
RECURSIVE EncodeItems(_, _, _)
RECURSIVE EncodeMembers(_, _, _, _)

EncodeItems(items, indent, depth) ==
    IF Len(items) = 1 THEN Encode(items[1], indent, depth)
    ELSE Encode(Head(items), indent, depth) \o ItemSep(indent, depth)
         \o EncodeItems(Tail(items), indent, depth)

EncodeMembers(d, keys, indent, depth) ==
    LET member == <<"\"", Head(keys), "\"", ":", " ">> \o Encode(d[Head(keys)], indent, depth)
    IN IF Len(keys) = 1 THEN member
       ELSE member \o ItemSep(indent, depth) \o EncodeMembers(d, Tail(keys), indent, depth)

\* json.dumps(v, indent=indent) at nesting depth `depth`
Encode(v, indent, depth) ==
    CASE v.t = "null" -> <<"null">>
      [] v.t = "bool" -> IF v.v THEN <<"true">> ELSE <<"false">>
      [] v.t = "num" -> IntLex(v.v)
      [] v.t = "float" -> IntLex(v.v[1]) \o <<".">> \o IntLex(v.v[2])
      [] v.t = "text" -> <<"\"">> \o Escape(v.v) \o <<"\"">>
      [] v.t = "list" ->
            IF v.v = <<>> THEN <<"[", "]">>
            ELSE <<"[">> \o Newline(indent, depth + 1)
                 \o EncodeItems(v.v, indent, depth + 1)
                 \o Newline(indent, depth) \o <<"]">>
      [] v.t = "dict" ->
            IF DOMAIN v.v = {} THEN <<"{", "}">>
            ELSE <<"{">> \o Newline(indent, depth + 1)
                 \o EncodeMembers(v.v, KeySeq(DOMAIN v.v), indent, depth + 1)
                 \o Newline(indent, depth) \o <<"}">>

\* ---- json.loads: a parser over the same lexemes; s[i] is the next one
ParseFail == [ok |-> FALSE, val |-> JError, next |-> 0]
Parsed(val, next) == [ok |-> TRUE, val |-> val, next |-> next]

RECURSIVE SkipWs(_, _)
SkipWs(s, i) == IF i <= Len(s) /\ IsWs(s[i]) THEN SkipWs(s, i + 1) ELSE i

RECURSIVE ParseDigits(_, _, _)
ParseDigits(s, i, acc) ==
    IF i <= Len(s) /\ IsDigit(s[i])
    THEN ParseDigits(s, i + 1, acc * Len(DigitChars) + DigitValue(s[i]))
    ELSE Parsed(acc, i)

ParseNumber(s, i) ==
    LET whole == ParseDigits(s, i, 0)
        j == whole.next
    IN IF j + 1 <= Len(s) /\ s[j] = "." /\ IsDigit(s[j + 1])
       THEN LET frac == ParseDigits(s, j + 1, 0)
            IN Parsed(JFloat(whole.val, frac.val), frac.next)
       ELSE Parsed(JNum(whole.val), j)

\* after the opening quote; a raw newline inside a string is refused
RECURSIVE ParseString(_, _, _)
ParseString(s, i, acc) ==
    IF i > Len(s) \/ s[i] = "\n" THEN ParseFail
    ELSE IF s[i] = "\"" THEN Parsed(JText(acc), i + 1)
    ELSE IF s[i] = "\\"
    THEN IF i + 1 > Len(s) THEN ParseFail
         ELSE CASE s[i + 1] = "\"" -> ParseString(s, i + 2, Append(acc, "\""))
                [] s[i + 1] = "\\" -> ParseString(s, i + 2, Append(acc, "\\"))
                [] s[i + 1] = "n" -> ParseString(s, i + 2, Append(acc, "\n"))
                [] OTHER -> ParseFail
    ELSE ParseString(s, i + 1, Append(acc, s[i]))

RECURSIVE ParseValue(_, _)
RECURSIVE ParseItems(_, _, _)
RECURSIVE ParseMembers(_, _, _)

\* after "[" or ",": a value, then "," or "]"
ParseItems(s, i, acc) ==
    LET r == ParseValue(s, i)
        k == SkipWs(s, r.next)
    IN IF ~r.ok \/ k > Len(s) THEN ParseFail
       ELSE IF s[k] = "," THEN ParseItems(s, k + 1, Append(acc, r.val))
       ELSE IF s[k] = "]" THEN Parsed(JList(Append(acc, r.val)), k + 1)
       ELSE ParseFail

\* after "{" or ",": "key", ":", a value, then "," or "}"
ParseMembers(s, i, acc) ==
    LET j == SkipWs(s, i)
        key == IF j + 1 <= Len(s) /\ s[j] = "\"" THEN ParseString(s, j + 1, <<>>) ELSE ParseFail
        c == SkipWs(s, key.next)
        r == ParseValue(s, c + 1)
        k == SkipWs(s, r.next)
    IN IF ~key.ok \/ Len(key.val.v) # 1 \/ c > Len(s) THEN ParseFail
       ELSE IF s[c] # ":" \/ ~r.ok \/ k > Len(s) THEN ParseFail
       ELSE LET d == Update(acc, [x \in {key.val.v[1]} |-> r.val])
            IN IF s[k] = "," THEN ParseMembers(s, k + 1, d)
               ELSE IF s[k] = "}" THEN Parsed(JDict(d), k + 1)
               ELSE ParseFail

ParseValue(s, i0) ==
    LET i == SkipWs(s, i0)
    IN IF i > Len(s) THEN ParseFail
       ELSE CASE s[i] = "null" -> Parsed(JNull, i + 1)
              [] s[i] = "true" -> Parsed(JBool(TRUE), i + 1)
              [] s[i] = "false" -> Parsed(JBool(FALSE), i + 1)
              [] s[i] = "\"" -> ParseString(s, i + 1, <<>>)
              [] s[i] = "[" ->
                    LET j == SkipWs(s, i + 1)
                    IN IF j <= Len(s) /\ s[j] = "]" THEN Parsed(JList(<<>>), j + 1)
                       ELSE ParseItems(s, j, <<>>)
              [] s[i] = "{" ->
                    LET j == SkipWs(s, i + 1)
                    IN IF j <= Len(s) /\ s[j] = "}" THEN Parsed(JDict(<<>>), j + 1)
                       ELSE ParseMembers(s, j, <<>>)
              [] OTHER -> IF IsDigit(s[i]) THEN ParseNumber(s, i) ELSE ParseFail

\* json.loads(text) on a whole text: one value and nothing but whitespace after
\* it, or it raises (JError)
json_loads_text(text) ==
    LET r == ParseValue(text, 1)
    IN IF r.ok /\ SkipWs(text, r.next) = Len(text) + 1 THEN r.val ELSE JError

\* ---- the record as the Python value json.dump is handed
StrKeys ==
    { "app", "platform", "release", "version", "machine", "processor", "boot_time",
      "device", "mount", "fstype", "manufacturer", "driver_version", "driver_date",
      "ping_ms" }
TextKeys == {"error", "raw", "health", "note", "percentage_used", "data_units_written"}
IntKeys == {"cpu_physical_cores", "cpu_logical_cores", "returncode", "problem_code", "tracert_hops"}
FloatKeys == {"memory_total_gb", "total_gb", "percent"}
BoolKeys == {"admin", "outdated", "ping_ok", "dns_ok"}
TimeKeys == {"timestamp", "completed"}
DictListKeys == {"storage", "drivers", "volumes", "readings"}
LoadedKeys == {"bugchecks", "name", "value_c", "hw"}

\* a value json.loads made of a probe's output, its strings as lexemes
RECURSIVE Loaded(_)
Loaded(x) ==
    CASE x.t = "str" -> JText(<<x.v>>)
      [] x.t = "list" -> JList([i \in 1..Len(x.v) |-> Loaded(x.v[i])])
      [] x.t = "dict" -> JDict([k \in DOMAIN x.v |-> Loaded(x.v[k])])
      [] OTHER -> x

RECURSIVE PyValue(_, _)
RECURSIVE PyDict(_)
PyDict(d) == JDict([k \in DOMAIN d |-> PyValue(k, d[k])])

\* the value under key k; datetime.isoformat() + "Z" for the two stamps,
\* round(x, 2) and usage.percent are floats
PyValue(k, x) ==
    CASE k \in StrKeys -> JText(<<x>>)
      [] k \in TextKeys -> JText(x)
      [] k \in IntKeys -> JNum(x)
      [] k \in FloatKeys -> JFloat(x, 0)
      [] k \in BoolKeys -> JBool(x)
      [] k \in TimeKeys -> JText(<<"T">> \o IntLex(x) \o <<"Z">>)
      [] k \in DictListKeys -> JList([i \in 1..Len(x) |-> PyDict(x[i])])
      [] k = "sources" -> JList([i \in 1..Len(x) |-> JText(x[i])])
      [] k \in LoadedKeys -> Loaded(x)
      [] OTHER -> PyDict(x)

\* the characters of a document json_dumps stands for
JsonText(doc) == Encode(PyDict(doc.value), doc.indent, 0)

\* everything the invocation printed to stdout, in order
RECURSIVE StdoutStream(_)
StdoutStream(items) ==
    IF items = <<>> THEN <<>>
    ELSE (IF Head(items).kind = "json" THEN JsonText(Head(items).text)
          ELSE <<APP_NAME, ":", " ", Head(items).text>>)
         \o <<"\n">> \o StdoutStream(Tail(items))

\* ----------------------------------------------------------------------------
\* SpecJson: cli() invocations whose JSON outputs are read back
\* ----------------------------------------------------------------------------
\* a drive whose report has a quoted name, a Windows path and several lines
SmartQuoted ==
    Completed(0, <<"Model", ":", " ", "\"", "WD", " ", "Blue", "\"", "\n",
                   "Log", ":", " ", "C:", "\\", "n", "\\", "\"", "\n",
                   HealthKey, ":", " ", "PASSED">>, <<>>)

JsonEnv ==
    [ BaseEnv EXCEPT
        !.sq = [fails |-> FALSE, parts |-> << [device |-> "C:", usageOk |-> TRUE] >>],
        !.scan = Completed(0, ScanOut(2), <<>>),
        !.devProcs = <<SmartQuoted, Completed(2, <<>>, <<"open", " ", "failed:", " ", "\\", "\\.", "\n", "!">>)>>,
        !.wmi = TRUE, !.wq = [failAt |-> Len(WmiDrivers) + 1, drivers |-> WmiDrivers],
        !.evtProc = Completed(0, <<EvtMany>>, <<>>) ]

JsonEnvs ==
    { JsonEnv,
      [JsonEnv EXCEPT !.lhmProc = Completed(0, <<LhmString>>, <<>>), !.psutil = FALSE,
                      !.evtProc = Completed(0, <<EvtOne>>, <<>>)],
      [BaseEnv EXCEPT !.lhmProc = Completed(0, <<LhmNoValue>>, <<>>)],
      [BaseEnv EXCEPT !.smartctl = FALSE, !.lhm = FALSE, !.admin = FALSE, !.os = "posix"],
      [BaseEnv EXCEPT !.sq = [fails |-> TRUE, parts |-> <<>>]] }

InitJson ==
    /\ args \in SUBSET {"json", "save_json", "zip", "quiet"}
    /\ cliEnv \in { <<[os |-> d.os, tk |-> d.os = "nt", diag |-> d]>> : d \in JsonEnvs }
    /\ cliPc = "start" /\ outputs = NoOutputs /\ roundTrip = <<>>
    /\ DiagIdle /\ RunIdle /\ GuiIdle /\ ExpIdle

\* the JSON outputs of the invocation, each with the text it holds:
\* all of stdout, the document printed there, the --save-json file, report.json
Channels ==
    (IF PrintedJson
     THEN { [channel |-> "stdout", text |-> StdoutStream(outputs.stdout)] }
          \cup { [channel |-> "stdout document", text |-> JsonText(outputs.stdout[i].text)] :
                   i \in { j \in 1..Len(outputs.stdout) : outputs.stdout[j].kind = "json" } }
     ELSE {})
    \cup (IF HasFile("save_json")
          THEN { [channel |-> "save_json", text |-> JsonText(outputs.files.save_json)] }
          ELSE {})
    \cup (IF HasFile("zip")
          THEN { [channel |-> "report.json", text |-> JsonText(outputs.files.zip[1].data)] }
          ELSE {})

\* json.loads on one of the outputs, and json.dumps(…, indent=2) of what it gave
ReadBack ==
    /\ cliPc = "done" /\ headless(args)
    /\ \E c \in Channels :
          LET back == json_loads_text(c.text)
          IN roundTrip' = << [ channel |-> c.channel, text |-> c.text, back |-> back,
                               again |-> IF back = JError THEN <<>> ELSE Encode(back, 2, 0) ] >>
    /\ UNCHANGED <<args, cliPc, cliEnv, outputs, diagVars, runVars, guiVars, expVars>>

NextJson == NextCli \/ ReadBack

SpecJson == InitJson /\ [][NextJson]_vars

\* the record the invocation collected, as a Python value
Collected == PyDict(outputs.record[1])

\* C12 as the specification states it: whichever JSON output is read back
\* (stdout, the --save-json file, report.json in the bundle), parsing gives a
\* record equal to the original and serializing that again gives the same text.
C12_RoundTrip ==
    roundTrip # <<>> =>
       /\ roundTrip[1].back # JError
       /\ roundTrip[1].back = Collected
       /\ roundTrip[1].again = roundTrip[1].text

\* C12, amended: the JSON document of each output (the --save-json file,
\* report.json, the document printed to stdout) parses to a record equal to the
\* original, and serializing the parsed record again gives the same text. All of
\* stdout is that document plus a newline under --quiet only: otherwise status
\* lines surround it and stdout as a whole is no JSON document.
C12_RoundTripOfDocument ==
    roundTrip # <<>> =>
       LET r == roundTrip[1]
       IN /\ r.channel # "stdout" =>
                /\ r.back # JError
                /\ r.back = Collected
                /\ r.again = r.text
          /\ r.channel = "stdout" =>
                /\ r.back # JError <=> "quiet" \in args
                /\ "quiet" \in args =>
                      /\ r.back = Collected
                      /\ r.again \o <<"\n">> = r.text

C12_Witness ==
    /\ roundTrip # <<>> /\ roundTrip[1].channel = "save_json"
    /\ roundTrip[1].back = Collected
    /\ \E i \in 1..Len(outputs.record[1].storage) :
          /\ "raw" \in DOMAIN outputs.record[1].storage[i]
          /\ \E k \in 1..Len(outputs.record[1].storage[i].raw) :
                outputs.record[1].storage[i].raw[k] = "\""
    /\ outputs.record[1].drivers # <<>>

\* ----------------------------------------------------------------------------
\* More claims about the desktop window (checked under SpecGui)
\* ----------------------------------------------------------------------------

\* C13: the polling loop never stops while the window is open: every invocation
\* of poll_queue schedules the next one, whether the queue was empty, a 'done'
\* message was rendered, an 'error' message was shown, or handling the message
\* failed; so a poll is pending in every state of the window.
C13_PollingNeverStops == pollArmed

\* the drive entries the Storage tab shows came from the record the Summary tab
\* summarises: render() sets both or neither
ShownStorage == tabs["Storage"].text

\* an entry for a drive that was probed (lines 139-154), as opposed to the
\* entries that report a missing tool, a failed scan or an empty scan
Probed(entry) == "device" \in DOMAIN entry

\* C14: the Summary tab says 'SMART: OK' only if the storage section holds at
\* least one entry of a probed drive and no entry carries an error or a health
\* that does not start with PASSED; with smartctl missing, the scan failing or
\* the scan finding no drive it says 'SMART: Issues found or unavailable'.
C14_SmartSummary ==
    tabs["Summary"].kind = "rendered" =>
       LET smart == tabs["Summary"].text.smart
       IN /\ smart = "OK" =>
                /\ \E i \in 1..Len(ShownStorage) : Probed(ShownStorage[i])
                /\ \A i \in 1..Len(ShownStorage) :
                      /\ ~Truthy(Get(ShownStorage[i], "error", <<>>))
                      /\ Truthy(Get(ShownStorage[i], "health", <<>>)) =>
                            ShownStorage[i].health[1] = "PASSED"
          /\ (\E i \in 1..Len(ShownStorage) : ~Probed(ShownStorage[i])) =>
                smart = "Issues found or unavailable"

\* the run started by the last accepted click, while its message is not handled
InProgress ==
    /\ worker # <<>>
    /\ \A k \in 1..Len(handled) : handled[k] # Len(worker)

\* C15: from the accepted click of a run until the message of that same run is
\* handled every tab shows 'Collecting'; the record of an earlier run is not
\* rendered while a later run is in progress.
C15_CollectingUntilHandled == InProgress => tabs = Collecting

====
